---- MODULE Spec2Model ----
(***************************************************************************)
(* Word Wizard (src/word_wizard.py): the wordlist generation engine        *)
(* (Options, WordlistEngine), the background worker (GenThread) and the    *)
(* two window handlers that drive it (Wizard._start, Wizard._show).        *)
(*                                                                         *)
(* A character is a TLA+ string; a Python str is a sequence of characters. *)
(* Characters outside ASCII are named: "euro" (U+20AC), "iexcl" (U+00A1),  *)
(* "e_acute" (U+00E9), "E_acute" (U+00C9), "eszett" (U+00DF).              *)
(*                                                                         *)
(* Where an operator uses an intermediate value several times, the value   *)
(* is bound by a singleton set (CHOOSE r \in {e(x) : x \in {v}} : TRUE is   *)
(* e(v)), which evaluates v once, also inside ENABLED; f \o <<>> is the     *)
(* sequence f with its elements evaluated.                                 *)
(***************************************************************************)
EXTENDS Integers, Sequences, FiniteSets, TLC

VARIABLES
    engine,     \* Wizard.engine: <<>> for None, else <<the WordlistEngine>>
    generated,  \* Wizard.generated: the words of the list last shown
    btn_gen,    \* Wizard.btn_gen.isEnabled()
    message,    \* the QMessageBox presented by the last window handler
    threads,    \* the GenThread objects alive, each with the position and
                \* the locals of its run(); Wizard.thread is the last one
    done        \* emissions of GenThread.done queued for the window

vars == <<engine, generated, btn_gen, message, threads, done>>

----------------------------------------------------------------------------
(* Characters *)

\* The characters of the model, in code point order.
CharOrder ==
    << " ", "!", "#", "$", "%", "-", ".", "/",
       "0", "1", "2", "3", "4", "5", "6", "7", "8", "9",
       ":", "?", "@", "A", "B", "C", "D", "E", "I", "L", "O", "S", "T", "U",
       "\\", "_",
       "a", "b", "c", "d", "e", "i", "l", "o", "s", "t", "u",
       "iexcl", "E_acute", "eszett", "e_acute", "euro" >>

LowerLetters ==
    << "a", "b", "c", "d", "e", "i", "l", "o", "s", "t", "u", "e_acute" >>
UpperLetters ==
    << "A", "B", "C", "D", "E", "I", "L", "O", "S", "T", "U", "E_acute" >>
DigitChars   == << "0", "1", "2", "3", "4", "5", "6", "7", "8", "9" >>

Range(s) == { s[i] : i \in 1..Len(s) }

IsLowerCh(c) == c \in Range(LowerLetters) \/ c = "eszett"
IsUpperCh(c) == c \in Range(UpperLetters)
\* str.isalpha() of one character
IsAlphaCh(c) == IsLowerCh(c) \/ IsUpperCh(c)
\* the characters matched by \d
IsDigitCh(c) == c \in Range(DigitChars)
\* the characters matched by \w (so NOT matched by \W)
IsWordCh(c)  == IsAlphaCh(c) \/ IsDigitCh(c) \/ c = "_"
\* the characters matched by \s
IsSpaceCh(c) == c = " "
\* str.isascii() of one character
IsAsciiCh(c) == c \notin {"iexcl", "E_acute", "eszett", "e_acute", "euro"}

\* the upper case of a character whose upper case is one character
UpperCh(c) ==
    IF c \in Range(LowerLetters)
    THEN UpperLetters[CHOOSE i \in 1..Len(LowerLetters) : LowerLetters[i] = c]
    ELSE c

LowerCh(c) ==
    IF IsUpperCh(c)
    THEN LowerLetters[CHOOSE i \in 1..Len(UpperLetters) : UpperLetters[i] = c]
    ELSE c

\* c.upper() and c.title() of one character, a str: the upper case of
\* U+00DF is "SS" and its title case is "Ss"
UpperOf(c) == IF c = "eszett" THEN << "S", "S" >> ELSE << UpperCh(c) >>
TitleOf(c) == IF c = "eszett" THEN << "S", "s" >> ELSE << UpperCh(c) >>

----------------------------------------------------------------------------
(* Strings and lists *)

\* "".join(list of strings)
RECURSIVE ConcatFrom(_, _)
ConcatFrom(ss, i) ==
    IF i > Len(ss) THEN <<>> ELSE ss[i] \o ConcatFrom(ss, i + 1)

Concat(ss) == CHOOSE r \in {ConcatFrom(t, 1) : t \in {ss \o <<>>}} : TRUE

\* str.upper(), str.lower()
StrUpper(s) ==
    IF \A i \in 1..Len(s) : s[i] # "eszett"
    THEN [i \in 1..Len(s) |-> UpperCh(s[i])]
    ELSE Concat([i \in 1..Len(s) |-> UpperOf(s[i])])
StrLower(s) == [i \in 1..Len(s) |-> LowerCh(s[i])]

\* str.capitalize(): first character upper-cased, the rest lower-cased
StrCapitalize(s) ==
    IF s = <<>> THEN s
    ELSE IF s[1] # "eszett"
    THEN [i \in 1..Len(s) |-> IF i = 1 THEN UpperCh(s[i]) ELSE LowerCh(s[i])]
    ELSE TitleOf(s[1]) \o StrLower(Tail(s))

\* s[::-1]
StrReverse(s) == [i \in 1..Len(s) |-> s[Len(s) + 1 - i]]

\* str.isupper() / str.islower(): at least one cased character, none of the
\* other case
StrIsUpper(s) ==
    /\ \E i \in 1..Len(s) : IsUpperCh(s[i])
    /\ \A i \in 1..Len(s) : ~IsLowerCh(s[i])
StrIsLower(s) ==
    /\ \E i \in 1..Len(s) : IsLowerCh(s[i])
    /\ \A i \in 1..Len(s) : ~IsUpperCh(s[i])

\* sep.join(list of strings)
RECURSIVE Join(_, _)
Join(sep, ss) ==
    IF ss = <<>> THEN <<>>
    ELSE IF Len(ss) = 1 THEN ss[1]
    ELSE ss[1] \o sep \o Join(sep, Tail(ss))

\* list(a_set): the iteration order of a Python set of str depends on the
\* hash seed of the process.  The order is an input (HashOrders) of every
\* step that lists a set: code point order, or its reverse.
HashOrders == {"asc", "desc"}

\* the first position from k on at which the strings of S, which agree on
\* their first k - 1 characters, do not all hold the same character
FirstDifference(S, k) ==
    LET x0 == CHOOSE x \in S : TRUE
    IN  CHOOSE j \in k..(Len(x0) + 1) :
          /\ \A i \in k..(j - 1) : \A x \in S : Len(x) >= i /\ x[i] = x0[i]
          /\ (j = Len(x0) + 1 \/ \E x \in S : Len(x) < j \/ x[j] # x0[j])

\* the strings of S, which agree on their first k - 1 characters, split at
\* their first difference d: the string that ends before d, then one group
\* per character found at d, in code point order
Buckets(S, k) ==
    CHOOSE r \in
      { CHOOSE q \in
          { (IF \E x \in S : Len(x) < d
             THEN << [set |-> {x \in S : Len(x) < d}, k |-> d] >> ELSE <<>>)
            \o [j \in 1..Len(order) |->
                 [set |-> {x \in S : Len(x) >= d /\ x[d] = order[j]},
                  k   |-> d + 1]]
              : order \in { SelectSeq(CharOrder,
                              LAMBDA c : \E x \in S : Len(x) >= d /\ x[d] = c) } }
          : TRUE
          : d \in { FirstDifference(S, k) } }
      : TRUE

\* the strings of S, which agree on their first k - 1 characters, in
\* lexicographic code point order
RECURSIVE SortedFrom(_, _)
SortedFrom(S, k) ==
    IF S = {} THEN <<>>
    ELSE IF Cardinality(S) = 1 THEN << CHOOSE x \in S : TRUE >>
    ELSE CHOOSE r \in
           { Concat([j \in 1..Len(bs) |-> SortedFrom(bs[j].set, bs[j].k)])
               : bs \in { Buckets(S, k) } }
           : TRUE

SetToList(S, ord) ==
    CHOOSE r \in
      { IF ord = "asc" THEN asc
        ELSE [i \in 1..Len(asc) |-> asc[Len(asc) + 1 - i]]
          : asc \in { SortedFrom(T, 1) : T \in {S} } } : TRUE

----------------------------------------------------------------------------
(* Options *)

\* SEP_SET and VOWELS (module constants)
SEP_SET == << " ", "_", "-", ".", "/", "!", "@", "#", "$", "%", "?", "," >>
VOWELS  == << "a", "e", "i", "o", "u", "y", "A", "E", "I", "O", "U", "Y" >>

\* a faulty validate() that checks the range of max_len only from below
Validate_NoUpper(o) ==
    IF o.min_len > o.max_len THEN "min_len>max_len"
    ELSE IF ~(1 <= o.min_len /\ 1 <= o.max_len)
    THEN "length out of range"
    ELSE IF o.numeric_only /\ o.exact_digits < 1
    THEN "Exact digits must be >=1 in banking mode"
    ELSE "ok"

\* Options.validate(): the message of the ValueError raised, or "ok"
Validate(o) ==
    IF o.min_len > o.max_len THEN "min_len>max_len"
    ELSE IF ~(1 <= o.min_len /\ o.min_len <= 128
              /\ 1 <= o.max_len /\ o.max_len <= 128)
    THEN "length out of range"
    ELSE IF o.numeric_only /\ o.exact_digits < 1
    THEN "Exact digits must be >=1 in banking mode"
    ELSE "ok"

----------------------------------------------------------------------------
(* WordlistEngine *)

\* WordlistEngine.LEET = str.maketrans("aAeEiIoOsS", "@4.3!1.0$5")
LeetFrom == << "a", "A", "e", "E", "i", "I", "o", "O", "s", "S" >>
LeetTo   == << "@", "4", "euro", "3", "!", "1", "iexcl", "0", "$", "5" >>

\* variant: "e" is replaced by "3"
LEET_E3(c) ==
    IF c = "e" THEN "3"
    ELSE IF c \in Range(LeetFrom)
    THEN LeetTo[CHOOSE i \in 1..Len(LeetFrom) : LeetFrom[i] = c]
    ELSE c

LEET(c) ==
    IF c \in Range(LeetFrom)
    THEN LeetTo[CHOOSE i \in 1..Len(LeetFrom) : LeetFrom[i] = c]
    ELSE c

\* w.translate(self.LEET)
Translate(w) == [i \in 1..Len(w) |-> LEET(w[i])]

\* variant: update(allv) instead of update(allv - {v})
VariantSiblings_Self(variants_map) ==
    LET group(base) == {StrLower(base)}
                       \cup {StrLower(a) : a \in Range(variants_map[base])}
        groups == {group(base) : base \in DOMAIN variants_map}
    IN  [v \in UNION groups |->
            UNION {G : G \in {H \in groups : v \in H}}]

\* the sibling table built by WordlistEngine.__init__ from variants_map
\* (a function base -> list of aliases)
VariantSiblings(variants_map) ==
    LET group(base) == {StrLower(base)}
                       \cup {StrLower(a) : a \in Range(variants_map[base])}
        groups == {group(base) : base \in DOMAIN variants_map}
    IN  [v \in UNION groups |->
            UNION {G \ {v} : G \in {H \in groups : v \in H}}]

\* WordlistEngine.__init__: the object built (Options.validate() decides
\* whether the constructor returns it or raises)
WordlistEngine(words, dates, opt, variants_map) ==
    [ words            |-> SelectSeq(words, LAMBDA w : w # <<>>),
      dates            |-> dates,
      o                |-> opt,
      variants_map     |-> variants_map,
      variant_siblings |-> VariantSiblings(variants_map) ]

\* strftime("%d"), ("%m"), ("%y"): two digits, zero padded
Pad2(n) == << DigitChars[((n \div 10) % 10) + 1], DigitChars[(n % 10) + 1] >>
\* strftime("%Y") for a four digit year
Pad4(n) == Pad2(n \div 100) \o Pad2(n % 100)

\* WordlistEngine._dates
Dates(eng) ==
    LET frag(d) ==
            LET dd   == Pad2(d.day)
                mm   == Pad2(d.month)
                yy   == Pad2(d.year % 100)
                yyyy == Pad4(d.year)
            IN  << dd, mm, yy, yyyy, dd \o mm, mm \o dd, dd \o mm \o yy,
                   dd \o mm \o yyyy, yyyy \o mm \o dd >>
    IN  Concat([i \in 1..Len(eng.dates) |-> frag(eng.dates[i])])

\* itertools.permutations over n positions: the r-arrangements of the positions
\* 1..n, in lexicographic order
RECURSIVE Arrangements(_, _)
Arrangements(n, r) ==
    IF r = 0 THEN << <<>> >>
    ELSE IF r > n THEN <<>>
    ELSE CHOOSE res \in
           { LET free(p) == (1..n) \ Range(p)
                 kth(p, k) == CHOOSE j \in free(p) :
                                 Cardinality({x \in free(p) : x < j}) = k - 1
             IN  [i \in 1..(Len(prev) * m) |->
                     Append(prev[((i - 1) \div m) + 1],
                            kth(prev[((i - 1) \div m) + 1], ((i - 1) % m) + 1))]
                 \o <<>>
               : prev \in {Arrangements(n, r - 1)}, m \in {n - r + 1} } : TRUE

Min(a, b) == IF a < b THEN a ELSE b

\* variant: only the first separator is used
Combine_FirstSeparator(items, o) ==
    LET n == Len(items)
        prods(r) ==
            CHOOSE res \in
              { [i \in 1..Len(P) |-> [k \in 1..r |-> items[P[i][k]]] \o <<>>]
                  : P \in {Arrangements(n, r)} } : TRUE
        k == Len(o.separators)
        level(r) ==
            CHOOSE res \in
              { IF o.add_separators
                THEN [i \in 1..(Len(Q) * Min(1, k)) |->
                        Join(<< o.separators[1] >>, Q[i])]
                ELSE [i \in 1..Len(Q) |-> Concat(Q[i])]
                  : Q \in {prods(r)} } : TRUE
    IN  Concat([r \in 1..Min(4, n) |-> level(r)])

\* variant: with no separator configured the items are concatenated
Combine_ConcatWhenNone(items, o) ==
    LET n == Len(items)
        prods(r) ==
            CHOOSE res \in
              { [i \in 1..Len(P) |-> [k \in 1..r |-> items[P[i][k]]] \o <<>>]
                  : P \in {Arrangements(n, r)} } : TRUE
        k == Len(o.separators)
        level(r) ==
            CHOOSE res \in
              { IF o.add_separators /\ k > 0
                THEN [i \in 1..(Len(Q) * k) |->
                        Join(<< o.separators[((i - 1) % k) + 1] >>,
                             Q[((i - 1) \div k) + 1])]
                ELSE [i \in 1..Len(Q) |-> Concat(Q[i])]
                  : Q \in {prods(r)} } : TRUE
    IN  Concat([r \in 1..Min(4, n) |-> level(r)])

\* WordlistEngine._combine
Combine(items, o) ==
    LET n == Len(items)
        prods(r) ==
            CHOOSE res \in
              { [i \in 1..Len(P) |-> [k \in 1..r |-> items[P[i][k]]] \o <<>>]
                  : P \in {Arrangements(n, r)} } : TRUE
        k == Len(o.separators)
        level(r) ==
            CHOOSE res \in
              { IF o.add_separators
                THEN [i \in 1..(Len(Q) * k) |->
                        Join(<< o.separators[((i - 1) % k) + 1] >>,
                             Q[((i - 1) \div k) + 1])]
                ELSE [i \in 1..Len(Q) |-> Concat(Q[i])]
                  : Q \in {prods(r)} } : TRUE
    IN  Concat([r \in 1..Min(4, n) |-> level(r)])

\* re.sub(f"([{VOWELS}])", r"\\1\\1", w): in a replacement template "\\" is
\* an escaped backslash, so every vowel is replaced by the four characters
\* backslash, 1, backslash, 1
DupVowelsSub(w) ==
    Concat([i \in 1..Len(w) |->
              IF w[i] \in Range(VOWELS) THEN << "\\", "1", "\\", "1" >>
              ELSE << w[i] >>])

\* re.split(r'(\W+)', s) without its empty parts: the maximal runs of \w
\* characters and of \W characters, alternating
RECURSIVE SplitNonWord(_)
SplitNonWord(s) ==
    IF s = <<>> THEN <<>>
    ELSE CHOOSE r \in
           { << SubSeq(t, 1, n) >> \o SplitNonWord(SubSeq(t, n + 1, Len(t)))
               : t \in {s},
                 n \in { CHOOSE k \in 1..Len(s) :
                           /\ \A j \in 1..k : IsWordCh(s[j]) = IsWordCh(s[1])
                           /\ (k = Len(s) \/ IsWordCh(s[k + 1]) # IsWordCh(s[1])) } }
           : TRUE

\* p[0].upper() + p[1:].lower()
CapPart(p) ==
    IF p[1] # "eszett"
    THEN [i \in 1..Len(p) |-> IF i = 1 THEN UpperCh(p[i]) ELSE LowerCh(p[i])]
    ELSE UpperOf(p[1]) \o StrLower(Tail(p))

\* WordlistEngine._cap_first_tokens
CapFirstTokens(s) ==
    CHOOSE r \in
      { Concat([i \in 1..Len(parts) |->
                  IF IsAlphaCh(parts[i][1]) THEN CapPart(parts[i])
                  ELSE parts[i]])
          : parts \in {SplitNonWord(s)} } : TRUE

\* the variants one pass of WordlistEngine._mutate adds for w
MutateVariants(w, o) ==
    (IF o.add_casing THEN {StrUpper(w), StrLower(w), StrCapitalize(w)} ELSE {})
    \cup (IF o.add_leet THEN {Translate(w)} ELSE {})
    \cup (IF o.duplicate_vowels THEN {DupVowelsSub(w)} ELSE {})
    \cup (IF o.reverse_words THEN {StrReverse(w)} ELSE {})
    \cup (IF o.cap_first /\ w # <<>> THEN {CapFirstTokens(w)} ELSE {})
    \cup (IF o.cap_last /\ Len(w) > 0
          THEN {StrLower(SubSeq(w, 1, Len(w) - 1)) \o UpperOf(w[Len(w)])}
          ELSE {})

\* variant: acc starts empty
Mutate_VariantsOnly(lst, o, ord) ==
    SetToList(UNION {MutateVariants(w, o) : w \in Range(lst)}, ord)

\* variant: the loop runs over acc as it grows, so variants are transformed
\* once more
Mutate_TwoPasses(lst, o, ord) ==
    LET once == Range(lst) \cup UNION {MutateVariants(w, o) : w \in Range(lst)}
    IN  SetToList(once \cup UNION {MutateVariants(w, o) : w \in once}, ord)

\* WordlistEngine._mutate: acc = set(lst); one pass over list(acc);
\* return list(acc)
Mutate(lst, o, ord) ==
    SetToList(Range(lst) \cup UNION {MutateVariants(w, o) : w \in Range(lst)},
              ord)

\* variant: only ch + w is added
PrefixSuffix_PrefixOnly(lst, o) ==
    IF o.add_prefix_suffix = <<>> THEN lst
    ELSE LET extra == o.add_prefix_suffix
             k     == Len(extra)
             ret   == [i \in 1..(Len(lst) * k) |->
                        << extra[((i - 1) % k) + 1] >>
                            \o lst[((i - 1) \div k) + 1]]
         IN  lst \o ret

\* WordlistEngine._prefix_suffix
PrefixSuffix(lst, o) ==
    IF o.add_prefix_suffix = <<>> THEN lst
    ELSE LET extra == o.add_prefix_suffix
             k     == Len(extra)
             ret   == [i \in 1..(Len(lst) * k * 2) |->
                        LET w   == lst[((i - 1) \div (2 * k)) + 1]
                            rem == (i - 1) % (2 * k)
                            ch  == extra[(rem \div 2) + 1]
                        IN  IF rem % 2 = 0 THEN << ch >> \o w
                            ELSE w \o << ch >>]
         IN  lst \o ret

\* a faulty _filter that forgets the lower bound
Filter_NoMin(lst, o) ==
    SelectSeq(lst, LAMBDA w : Len(w) <= o.max_len)

\* WordlistEngine._filter
Filter(lst, o) ==
    SelectSeq(lst, LAMBDA w : o.min_len <= Len(w) /\ Len(w) <= o.max_len)

\* a faulty _uniq that returns its argument
Uniq_Keep(lst) == lst

\* WordlistEngine._uniq: w is appended when it is not in seen, that is when
\* no earlier position of lst holds it
Uniq(lst) ==
    CHOOSE r \in
      { (CHOOSE q \in
           { [k \in 1..Len(kept) |-> l[kept[k]]]
               : kept \in { SelectSeq([i \in 1..Len(l) |-> i],
                               LAMBDA i : \A j \in 1..(i - 1) : l[j] # l[i]) } }
           : TRUE)
          : l \in {lst} } : TRUE

RECURSIVE Pow(_, _)
Pow(b, e) == IF e = 0 THEN 1 ELSE b * Pow(b, e - 1)

\* a faulty digit alphabet that reads the words only
NumericDigits_WordsOnly(eng) ==
    LET D == {c \in Range(Concat(eng.words)) : IsDigitCh(c)}
    IN  SelectSeq(DigitChars, LAMBDA c : c \in D)

\* the digit alphabet of WordlistEngine._generate_numeric:
\* "".join(sorted(set(re.findall(r"\d", src))))
NumericDigits(eng) ==
    LET src == Concat(eng.words) \o Concat(Dates(eng))
        D   == {c \in Range(src) : IsDigitCh(c)}
    IN  SelectSeq(DigitChars, LAMBDA c : c \in D)

\* a faulty _generate_numeric without the check of an empty alphabet
GenerateNumeric_NoCheck(eng) ==
    LET length == eng.o.exact_digits
        digits == NumericDigits_WordsOnly(eng)
        d      == Len(digits)
    IN  [raised |-> FALSE,
         value  |-> [i \in 1..Pow(d, length) |->
                       [p \in 1..length |->
                          digits[(((i - 1) \div Pow(d, length - p)) % d) + 1]]]]

\* WordlistEngine._generate_numeric: raises when no digit is available,
\* else every string of exact_digits digits, in itertools.product order
GenerateNumeric(eng) ==
    CHOOSE r \in
      { LET length == eng.o.exact_digits
            d      == Len(digits)
            nums   == [i \in 1..Pow(d, length) |->
                        [p \in 1..length |->
                            digits[(((i - 1) \div Pow(d, length - p)) % d) + 1]]]
        IN  IF digits = <<>>
            THEN [raised |-> TRUE, value |-> <<>>]
            ELSE [raised |-> FALSE, value |-> Uniq(nums \o <<>>)]
          : digits \in {NumericDigits(eng)} } : TRUE

----------------------------------------------------------------------------
(* The soft enricher and its collaborators *)

\* unidecode(s): the real transliteration when the package is importable,
\* else the neutral fallback defined at import time
UnidecodeCh(c) ==
    IF c = "e_acute" THEN << "e" >>
    ELSE IF c = "E_acute" THEN << "E" >>
    ELSE IF c = "euro" THEN << "E", "U", "R" >>
    ELSE IF c = "iexcl" THEN << "!" >>
    ELSE IF c = "eszett" THEN << "s", "s" >>
    ELSE << c >>

Unidecode(s, available) ==
    IF available THEN Concat([i \in 1..Len(s) |-> UnidecodeCh(s[i])]) ELSE s

\* The lexical service (NLTK WordNet) as seen by the engine: a small
\* dictionary.  wn.morphy(word) is <<>> for None, else <<lemma>>.
WnMorphy(word) ==
    IF word \in { << "s", "e", "a" >>, << "s", "e", "a", "s" >> }
    THEN << << "s", "e", "a" >> >>
    ELSE <<>>

\* [syn.lemma_names() for syn in wn.synsets(word)]
WnSynsets(word) ==
    IF word = << "s", "e", "a" >>
    THEN << << << "s", "e", "a" >>, << "b", "i", "_", "o" >> >>,
            << << "s", "e_acute" >> >> >>
    ELSE IF word = << "s", "e", "a", "s" >>
    THEN << << << "b", "o" >>, << "b", "e" >>, << "b", "i" >>, << "b", "a" >>,
               << "s", "o" >>, << "s", "i" >> >>,
            << << "o", "s" >>, << "i", "s" >>, << "a", "s" >>, << "e", "s" >> >> >>
    ELSE <<>>

\* how the lexical service behaves in this process
WnModes == {"absent", "ok", "raise_morphy", "raise_synsets"}

\* str.strip()
RECURSIVE StrStrip(_)
StrStrip(s) ==
    IF s = <<>> THEN s
    ELSE IF IsSpaceCh(s[1]) THEN StrStrip(Tail(s))
    ELSE IF IsSpaceCh(s[Len(s)]) THEN StrStrip(SubSeq(s, 1, Len(s) - 1))
    ELSE s

\* [t for t in re.split(r"[\s_\-]+", w) if t]
IsTokenSep(c) == IsSpaceCh(c) \/ c = "_" \/ c = "-"

RECURSIVE Tokens(_)
Tokens(w) ==
    IF w = <<>> THEN <<>>
    ELSE IF IsTokenSep(w[1]) THEN Tokens(Tail(w))
    ELSE CHOOSE r \in
           { << SubSeq(t, 1, n) >> \o Tokens(SubSeq(t, n + 1, Len(t)))
               : t \in {w},
                 n \in { CHOOSE k \in 1..Len(w) :
                           /\ \A j \in 1..k : ~IsTokenSep(w[j])
                           /\ (k = Len(w) \/ IsTokenSep(w[k + 1])) } }
           : TRUE

\* WordlistEngine._reapply_case
ReapplyCase(src, ref) ==
    IF StrIsUpper(ref) THEN StrUpper(src)
    ELSE IF StrIsLower(ref) THEN StrLower(src)
    ELSE CHOOSE r \in
           { LET hits  == {i \in 1..Len(parts) : IsAlphaCh(parts[i][1])}
                 first == CHOOSE i \in hits : \A j \in hits : i <= j
             IN  IF hits = {} THEN src
                 ELSE Concat([i \in 1..Len(parts) |->
                                IF i = first THEN CapPart(parts[i]) ELSE parts[i]])
               : parts \in {SplitNonWord(src)} } : TRUE

MAX_SYNONYMS_PER_WORD == 8

\* l.replace("_", " ")
ReplaceUnderscore(l) == [i \in 1..Len(l) |-> IF l[i] = "_" THEN " " ELSE l[i]]

StrIsAscii(s) == \A i \in 1..Len(s) : IsAsciiCh(s[i])

\* the two nested loops that collect syns, both left once
\* len(syns) >= MAX_SYNONYMS_PER_WORD
RECURSIVE CollectSyns(_, _, _)
CollectSyns(lemmas, i, syns) ==
    IF i > Len(lemmas) THEN syns
    ELSE LET cand == ReplaceUnderscore(lemmas[i])
             next == IF cand # <<>> /\ StrIsAscii(cand)
                     THEN syns \cup {cand} ELSE syns
         IN  IF Cardinality(next) >= MAX_SYNONYMS_PER_WORD THEN next
             ELSE CollectSyns(lemmas, i + 1, next)

\* variant: the loops over the synsets have no break
WordNetAdditions_NoCap(w, mode) ==
    LET m     == WnMorphy(StrLower(w))
        lemma == IF m # <<>> THEN {ReapplyCase(m[1], w)} ELSE {}
        syns  == {ReplaceUnderscore(l) : l \in
                     {x \in Range(Concat(WnSynsets(StrLower(w)))) :
                         x # <<>> /\ StrIsAscii(x)}}
    IN  IF mode \in {"absent", "raise_morphy"} THEN {}
        ELSE IF mode = "raise_synsets" THEN lemma
        ELSE lemma \cup {ReapplyCase(s, w) : s \in syns}

\* what the WordNet block of _enrich_words adds to the pool for w
WordNetAdditions(w, mode) ==
    LET m     == WnMorphy(StrLower(w))
        lemma == IF m # <<>> THEN {ReapplyCase(m[1], w)} ELSE {}
        syns  == CollectSyns(Concat(WnSynsets(StrLower(w))), 1, {})
    IN  IF mode \in {"absent", "raise_morphy"} THEN {}
        ELSE IF mode = "raise_synsets" THEN lemma
        ELSE lemma \cup {ReapplyCase(s, w) : s \in syns}

\* variant: without pool.add(w)
EnrichWord_NoSelf(w, eng, env) ==
    LET w_unacc == Unidecode(w, env.unidecode)
        tokens  == Tokens(w)
        sibs(t) == IF StrLower(t) \in DOMAIN eng.variant_siblings
                   THEN eng.variant_siblings[StrLower(t)] ELSE {}
    IN  (IF w_unacc # <<>> /\ w_unacc # w THEN {w_unacc} ELSE {})
        \cup UNION {{ReapplyCase(s, tokens[i]) : s \in sibs(tokens[i])}
                       : i \in 1..Len(tokens)}
        \cup WordNetAdditions(w, env.wn)

\* what one iteration of the loop of _enrich_words adds to the pool
EnrichWord(w, eng, env) ==
    LET w_unacc == Unidecode(w, env.unidecode)
        tokens  == Tokens(w)
        sibs(t) == IF StrLower(t) \in DOMAIN eng.variant_siblings
                   THEN eng.variant_siblings[StrLower(t)] ELSE {}
    IN  {w}
        \cup (IF w_unacc # <<>> /\ w_unacc # w THEN {w_unacc} ELSE {})
        \cup UNION {{ReapplyCase(s, tokens[i]) : s \in sibs(tokens[i])}
                       : i \in 1..Len(tokens)}
        \cup WordNetAdditions(w, env.wn)

\* WordlistEngine._enrich_words
EnrichWords(words, eng, env, ord) ==
    LET pool    == UNION {EnrichWord(words[i], eng, env)
                             : i \in {j \in 1..Len(words) : words[j] # <<>>}}
        cleaned == {StrStrip(x) : x \in {y \in pool : y # <<>> /\ StrStrip(y) # <<>>}}
    IN  SetToList(cleaned, ord)

----------------------------------------------------------------------------
(* Wizard: reading the form *)

\* the formats Wizard._parse_date tries, in order
DateFormats == << "%d/%m/%Y", "%d-%m-%Y", "%d/%m/%y", "%d-%m-%y", "%Y-%m-%d" >>

IsLeap(y) == (y % 4 = 0 /\ y % 100 # 0) \/ y % 400 = 0

DaysIn(m, y) ==
    IF m = 2 THEN (IF IsLeap(y) THEN 29 ELSE 28)
    ELSE IF m \in {4, 6, 9, 11} THEN 30 ELSE 31

\* A date text of the form is [shape, day, month, year]: shape is the format
\* its punctuation and digit groups follow ("bad" when none), year is the
\* number written (two digits for %y shapes).
\* datetime.strptime(txt, fmt): <<>> when it raises, else <<the date>>
Strptime(txt, fmt) ==
    LET year == IF fmt \in {"%d/%m/%y", "%d-%m-%y"}
                THEN (IF txt.year <= 68 THEN 2000 + txt.year
                      ELSE 1900 + txt.year)
                ELSE txt.year
    IN  IF /\ txt.shape = fmt
           /\ txt.month \in 1..12
           /\ txt.day \in 1..DaysIn(txt.month, year)
        THEN << [day |-> txt.day, month |-> txt.month, year |-> year] >>
        ELSE <<>>

\* Wizard._parse_date: the first format that parses, else ValueError
ParseDate(txt) ==
    LET hits == {i \in 1..Len(DateFormats) : Strptime(txt, DateFormats[i]) # <<>>}
        first == CHOOSE i \in hits : \A j \in hits : i <= j
    IN  IF hits = {} THEN [raised |-> TRUE, value |-> <<>>]
        ELSE [raised |-> FALSE, value |-> Strptime(txt, DateFormats[first])]

----------------------------------------------------------------------------
(* Inputs *)

MaxWords  == 2    \* words typed into the form
MaxDigits == 2    \* exact_digits of the engines generated directly

W_sea == << "s", "e", "a" >>
W_Ab  == << "A", "b" >>
W_b12 == << "b", "1", "2" >>

WordPool == { <<>>, W_sea, W_Ab, W_b12 }

SeqsUpTo(S, n) == UNION {[1..k -> S] : k \in 0..n}

\* Wizard.name_variants: the table load_name_variants() returned
NameVariants == [base \in { << "a", "b" >> } |-> << << "a", "b", "e" >> >>]

Flags == { "add_leet", "add_casing", "add_separators", "cap_first", "cap_last",
           "duplicate_vowels", "reverse_words", "add_variants" }

\* the flags of WordlistEngine._mutate
MutateFlags == Flags \ { "add_separators", "add_variants" }

\* no flag, each flag alone, cap_first on joined words, all the flags of
\* _mutate together
FlagSets ==
    { {} } \cup {{f} : f \in Flags} \cup { {"add_separators", "cap_first"} }
        \cup {MutateFlags}

\* an Options value
MkOptions(win, seps, extra, F, numeric, digits) ==
    [ min_len           |-> win[1],
      max_len           |-> win[2],
      separators        |-> seps,
      add_leet          |-> "add_leet" \in F,
      add_casing        |-> "add_casing" \in F,
      add_separators    |-> "add_separators" \in F,
      cap_first         |-> "cap_first" \in F,
      cap_last          |-> "cap_last" \in F,
      add_prefix_suffix |-> extra,
      duplicate_vowels  |-> "duplicate_vowels" \in F,
      reverse_words     |-> "reverse_words" \in F,
      numeric_only      |-> numeric,
      exact_digits      |-> digits,
      add_variants      |-> "add_variants" \in F ]

\* length windows: two valid ones, then min > max, min < 1, max > 128
LenWindows == { <<1, 4>>, <<3, 128>>, <<4, 2>>, <<0, 5>>, <<1, 129>> }

D_2001_05_12 == [day |-> 12, month |-> 5, year |-> 2001]
D_1999_11_19 == [day |-> 19, month |-> 11, year |-> 1999]

\* the arguments of WordlistEngine(...) for the engines generated directly
EngineInputs ==
    { [words |-> ws, dates |-> <<>>,
       opt |-> MkOptions(win, << "-", "_" >>, <<>>, F, FALSE, 0)] :
         ws \in SeqsUpTo(WordPool, MaxWords), win \in LenWindows, F \in FlagSets }
    \cup
    { [words |-> ws, dates |-> <<>>,
       opt |-> MkOptions(win, << "-", "_" >>, << "!", "$", "!" >>, F, FALSE, 0)] :
         ws \in SeqsUpTo(WordPool, MaxWords), win \in { <<1, 4>>, <<3, 128>> },
         F \in { {}, {"add_separators"} } }
    \cup
    { [words |-> ws, dates |-> << D_2001_05_12 >>,
       opt |-> MkOptions(<<1, 4>>, << "-", "_" >>, <<>>, {}, FALSE, 0)] :
         ws \in { <<>> } }
    \cup
    { [words |-> ws, dates |-> <<>>,
       opt |-> MkOptions(<<1, 4>>, << "-", "_" >>, <<>>, F, FALSE, 0)] :
         ws \in { << << "A" >>, << "b" >>, W_Ab >> }, F \in { {}, {"add_separators"} } }
    \cup
    { [words |-> ws, dates |-> <<>>,
       opt |-> MkOptions(<<1, 4>>, <<>>, <<>>, F, FALSE, 0)] :
         ws \in SeqsUpTo(WordPool, MaxWords),
         F \in { {}, {"add_separators"}, {"add_separators", "add_casing"} } }
    \cup
    { [words |-> ws, dates |-> ds,
       opt |-> MkOptions(win, << "-", "_" >>, << "!" >>, F, TRUE, L)] :
         ws \in SeqsUpTo(WordPool, MaxWords),
         ds \in { <<>>, << D_2001_05_12 >>, << D_1999_11_19 >> },
         win \in LenWindows, F \in { {}, MutateFlags }, L \in 0..MaxDigits }

\* date texts of the form: "12/05/2001", "01-01-01", "31/02/2001", "2001"
T_good1 == [shape |-> "%d/%m/%Y", day |-> 12, month |-> 5, year |-> 2001]
T_good2 == [shape |-> "%d-%m-%y", day |-> 1, month |-> 1, year |-> 1]
T_feb31 == [shape |-> "%d/%m/%Y", day |-> 31, month |-> 2, year |-> 2001]
T_bad   == [shape |-> "bad", day |-> 0, month |-> 0, year |-> 2001]

\* what the form holds when the generate button is clicked.  The spin boxes
\* keep min_len and max_len in 1..128 and bank_digits in 4..16.
GuiInputs ==
    { [words |-> ws, dates |-> ds,
       opt |-> MkOptions(win, << "-" >>, << "!" >>, F, FALSE, 4)] :
         ws \in SeqsUpTo({ <<>>, W_Ab, W_b12 }, MaxWords),
         ds \in { <<>>, << T_bad >> },
         win \in { <<1, 4>>, <<4, 2>> },
         F \in { {"add_leet", "add_casing"}, {"add_variants"} } }
    \cup
    { [words |-> ws, dates |-> ds,
       opt |-> MkOptions(win, << "-" >>, << "!" >>, {}, TRUE, 4)] :
         ws \in SeqsUpTo({ <<>>, W_Ab, W_b12 }, MaxWords),
         ds \in { <<>>, << T_good1 >>, << T_good2 >>, << T_feb31 >>,
                  << T_good2, T_bad >> },
         win \in { <<1, 4>>, <<4, 2>> } }

\* the collaborators of the enricher in this process
Envs == [unidecode : BOOLEAN, wn : WnModes]

----------------------------------------------------------------------------
(* GenThread.run and the statements of WordlistEngine.generate *)

NewThread(eng) ==
    [ pc |-> "generate", eng |-> eng, parts |-> <<>>, combos |-> <<>>,
      res |-> <<>>, failed |-> FALSE, emits |-> 0 ]

\* the outcome of generate() when numeric_only is set
NumericStep(th) ==
    LET r == GenerateNumeric(th.eng)
    IN  [th EXCEPT !.pc = "emit", !.res = r.value, !.failed = r.raised]

\* base_words and parts of generate() on the word path
PartsStep(th, env, ord) ==
    LET base_words == IF th.eng.o.add_variants
                      THEN EnrichWords(th.eng.words, th.eng, env, ord)
                      ELSE th.eng.words
    IN  [th EXCEPT !.pc = "combine", !.parts = Dates(th.eng) \o base_words]

\* generate(): the numeric branch, or base_words and parts
GenEntry ==
    \E i \in 1..Len(threads) :
    /\ threads[i].pc = "generate"
    /\ IF threads[i].eng.o.numeric_only
       THEN threads' = [threads EXCEPT ![i] = NumericStep(threads[i])]
       ELSE \E env \in (IF threads[i].eng.o.add_variants THEN Envs
                        ELSE {[unidecode |-> FALSE, wn |-> "absent"]}),
               ord \in (IF threads[i].eng.o.add_variants THEN HashOrders
                        ELSE {"asc"}) :
              threads' = [threads EXCEPT ![i] = PartsStep(threads[i], env, ord)]
    /\ UNCHANGED <<engine, generated, btn_gen, message, done>>

\* combos = self._combine(parts)
CombineStep ==
    \E i \in 1..Len(threads) :
    /\ threads[i].pc = "combine"
    /\ threads' = [threads EXCEPT ![i] =
          [threads[i] EXCEPT !.pc = "mutate",
              !.combos = Combine(threads[i].parts, threads[i].eng.o)]]
    /\ UNCHANGED <<engine, generated, btn_gen, message, done>>

\* combos = self._mutate(combos)
MutateStep ==
    \E i \in 1..Len(threads) :
    /\ threads[i].pc = "mutate"
    /\ \E ord \in HashOrders :
          threads' = [threads EXCEPT ![i] =
             [threads[i] EXCEPT !.pc = "prefix_suffix",
                 !.combos = Mutate(threads[i].combos, threads[i].eng.o, ord)]]
    /\ UNCHANGED <<engine, generated, btn_gen, message, done>>

\* combos = self._prefix_suffix(combos)
PrefixSuffixStep ==
    \E i \in 1..Len(threads) :
    /\ threads[i].pc = "prefix_suffix"
    /\ threads' = [threads EXCEPT ![i] =
          [threads[i] EXCEPT !.pc = "filter",
              !.combos = PrefixSuffix(threads[i].combos, threads[i].eng.o)]]
    /\ UNCHANGED <<engine, generated, btn_gen, message, done>>

\* combos = self._filter(combos)
FilterStep ==
    \E i \in 1..Len(threads) :
    /\ threads[i].pc = "filter"
    /\ threads' = [threads EXCEPT ![i] =
          [threads[i] EXCEPT !.pc = "uniq",
              !.combos = Filter(threads[i].combos, threads[i].eng.o)]]
    /\ UNCHANGED <<engine, generated, btn_gen, message, done>>

\* return self._uniq(combos), received by run() as res
UniqStep ==
    \E i \in 1..Len(threads) :
    /\ threads[i].pc = "uniq"
    /\ threads' = [threads EXCEPT ![i] =
          [threads[i] EXCEPT !.pc = "emit", !.res = Uniq(threads[i].combos)]]
    /\ UNCHANGED <<engine, generated, btn_gen, message, done>>

\* variant: run() returns without emitting when generate() raised
Emit_DropsFailure ==
    \E i \in 1..Len(threads) :
    /\ threads[i].pc = "emit"
    /\ IF threads[i].failed
       THEN /\ done' = done
            /\ threads' = [threads EXCEPT ![i] =
                  [threads[i] EXCEPT !.pc = "finished"]]
       ELSE /\ done' = Append(done, [words  |-> threads[i].res,
                                     failed |-> threads[i].failed])
            /\ threads' = [threads EXCEPT ![i] =
                  [threads[i] EXCEPT !.pc = "finished", !.emits = @ + 1]]
    /\ UNCHANGED <<engine, generated, btn_gen, message>>

\* self.done.emit(res): res is [] when generate() raised.  The entry queued
\* for the window carries the list; failed is kept beside it for the
\* properties only (the signal does not carry it).
Emit ==
    \E i \in 1..Len(threads) :
    /\ threads[i].pc = "emit"
    /\ done' = Append(done, [words  |-> threads[i].res,
                             failed |-> threads[i].failed])
    /\ threads' = [threads EXCEPT ![i] =
          [threads[i] EXCEPT !.pc = "finished", !.emits = @ + 1]]
    /\ UNCHANGED <<engine, generated, btn_gen, message>>

----------------------------------------------------------------------------
(* Wizard._start and Wizard._show *)

\* the error of the try block of Wizard._start, or "none"
StartError(inp) ==
    IF \E i \in 1..Len(inp.dates) : ParseDate(inp.dates[i]).raised
    THEN "Bad date"
    ELSE Validate(inp.opt)

\* variant: the button is disabled before the try block
Start_DisablesFirst ==
    /\ btn_gen
    /\ \E inp \in GuiInputs :
          LET err   == StartError(inp)
              dates == [i \in 1..Len(inp.dates) |-> ParseDate(inp.dates[i]).value[1]]
              eng   == WordlistEngine(inp.words, dates, inp.opt, NameVariants)
          IN  IF err # "ok"
              THEN /\ message' = err
                   /\ btn_gen' = FALSE
                   /\ UNCHANGED <<engine, generated, threads, done>>
              ELSE /\ engine' = << eng >>
                   /\ btn_gen' = FALSE
                   /\ threads' = Append(SelectSeq(threads,
                                     LAMBDA t : t.pc # "finished"),
                                        NewThread(eng))
                   /\ message' = "none"
                   /\ UNCHANGED <<generated, done>>

\* variant: the button stays enabled while the worker runs
Start_LeavesEnabled ==
    /\ btn_gen
    /\ \E inp \in GuiInputs :
          LET err   == StartError(inp)
              dates == [i \in 1..Len(inp.dates) |-> ParseDate(inp.dates[i]).value[1]]
              eng   == WordlistEngine(inp.words, dates, inp.opt, NameVariants)
          IN  IF err # "ok"
              THEN /\ message' = err
                   /\ UNCHANGED <<engine, generated, btn_gen, threads, done>>
              ELSE /\ engine' = << eng >>
                   /\ btn_gen' = btn_gen
                   /\ threads' = Append(SelectSeq(threads,
                                     LAMBDA t : t.pc # "finished"),
                                        NewThread(eng))
                   /\ message' = "none"
                   /\ UNCHANGED <<generated, done>>

\* Wizard._start, connected to btn_gen.clicked: a disabled button emits no
\* clicked signal
Start ==
    /\ btn_gen
    /\ \E inp \in GuiInputs :
          LET err   == StartError(inp)
              dates == [i \in 1..Len(inp.dates) |-> ParseDate(inp.dates[i]).value[1]]
              eng   == WordlistEngine(inp.words, dates, inp.opt, NameVariants)
          IN  IF err # "ok"
              THEN /\ message' = err
                   /\ UNCHANGED <<engine, generated, btn_gen, threads, done>>
              ELSE /\ engine' = << eng >>
                   /\ btn_gen' = FALSE
                   /\ threads' = Append(SelectSeq(threads,
                                     LAMBDA t : t.pc # "finished"),
                                        NewThread(eng))
                   /\ message' = "none"
                   /\ UNCHANGED <<generated, done>>

\* Wizard._show, the slot of GenThread.done
Show ==
    /\ done # <<>>
    /\ generated' = Head(done).words
    /\ done' = Tail(done)
    /\ btn_gen' = TRUE
    /\ message' = "none"
    /\ UNCHANGED <<engine, threads>>

----------------------------------------------------------------------------
(* Specifications *)

Init ==
    /\ engine = <<>>
    /\ generated = <<>>
    /\ btn_gen = TRUE
    /\ message = "none"
    /\ threads = <<>>
    /\ done = <<>>

\* the steps of a GenThread
Worker ==
    \/ GenEntry
    \/ CombineStep
    \/ MutateStep
    \/ PrefixSuffixStep
    \/ FilterStep
    \/ UniqStep
    \/ Emit

Next ==
    \/ Start
    \/ GenEntry
    \/ CombineStep
    \/ MutateStep
    \/ PrefixSuffixStep
    \/ FilterStep
    \/ UniqStep
    \/ Emit
    \/ Show

\* the window, its worker and the signal between them
Spec == Init /\ [][Next]_vars

\* the worker thread is scheduled and the event loop delivers queued signals
FairSpec == Spec /\ WF_vars(Worker) /\ WF_vars(Show)

\* The engines generated directly: WordlistEngine(...) is called with
\* EngineInputs; when the constructor raises, message holds its ValueError
\* and there is no engine; otherwise generate() is called once on the engine.
EngineInit ==
    /\ \E inp \in EngineInputs :
          LET err == Validate(inp.opt)
              eng == WordlistEngine(inp.words, inp.dates, inp.opt, NameVariants)
          IN  IF err # "ok"
              THEN engine = <<>> /\ threads = <<>> /\ message = err
              ELSE engine = << eng >> /\ threads = << NewThread(eng) >>
                   /\ message = "none"
    /\ generated = <<>>
    /\ btn_gen = FALSE
    /\ done = <<>>

EngineNext ==
    \/ GenEntry
    \/ CombineStep
    \/ MutateStep
    \/ PrefixSuffixStep
    \/ FilterStep
    \/ UniqStep

EngineSpec == EngineInit /\ [][EngineNext]_vars

----------------------------------------------------------------------------
(* Direct calls of WordlistEngine.__init__, load_name_variants,            *)
(* WordlistEngine._enrich_words and WordlistEngine._reapply_case           *)

MaxAliases == 2   \* aliases per base of a variant table

\* a str entry of an alias list, and an entry that is not a str (an int)
StrItem(s) == [str |-> TRUE, val |-> s]
IntItem(s) == [str |-> FALSE, val |-> s]    \* val is str(x)

\* a list of entries as the value of a base, and None as the value
ListOf(items) == [none |-> FALSE, items |-> items]
NoneAlts      == [none |-> TRUE, items |-> <<>>]

AliasPool == { << "a", "b", "e" >>, << "B", "o" >>, << "b", "e", "a" >> }
B_ab == << "a", "b" >>
B_bo == << "b", "o" >>

\* tables of the declared type dict[str, list[str]], the empty one included
WellFormedTables ==
    { <<>> }
    \cup UNION { [D -> {ListOf([i \in 1..Len(al) |-> StrItem(al[i])]) :
                          al \in SeqsUpTo(AliasPool, MaxAliases)}]
                   : D \in { {B_ab}, {B_ab, B_bo} } }

\* tables with a value of another type
MalformedTables ==
    { [b \in {B_ab} |-> NoneAlts],
      [b \in {B_ab} |-> ListOf(<< IntItem(<< "7" >>) >>)],
      [b \in {B_ab} |-> ListOf(<< StrItem(<< "a", "b", "e" >>), IntItem(<< "7" >>) >>)],
      [b \in {B_ab, B_bo} |-> IF b = B_ab THEN ListOf(<< StrItem(<< " " >>) >>)
                              ELSE NoneAlts] }

RawTables == WellFormedTables \cup MalformedTables

\* the body of load_name_variants for a file that holds the dict raw (no
\* key of these tables is blank, so no two keys collide and none is dropped)
LoadNameVariants(raw) ==
    [k2 \in {StrLower(StrStrip(k)) : k \in DOMAIN raw} |->
        LET k    == CHOOSE b \in DOMAIN raw : StrLower(StrStrip(b)) = k2
            vals == IF raw[k].none THEN <<>> ELSE raw[k].items
        IN  SetToList({StrLower(StrStrip(vals[i].val)) :
                          i \in {j \in 1..Len(vals) : StrStrip(vals[j].val) # <<>>}},
                      "asc")]

\* the table handed to the constructor when raw is passed as it is
AsGiven(raw) ==
    [b \in DOMAIN raw |-> [i \in 1..Len(raw[b].items) |-> raw[b].items[i].val]]

\* the loop of WordlistEngine.__init__ raises: iterating None is a TypeError,
\* a.lower() of an int is an AttributeError
InitRaises(raw) ==
    \E b \in DOMAIN raw :
        \/ raw[b].none
        \/ \E i \in 1..Len(raw[b].items) : ~raw[b].items[i].str

HelperWords ==
    { W_sea, << "s", "e", "a", "s" >>, W_Ab, << "a", "b", " " >>, << " " >>,
      << "s", "e_acute" >> }

SrcPool ==
    { <<>>, << "a", "b" >>, << "A", "B" >>, << "a", "B", "-", "s", "E", "a" >>,
      << "1", "a", " ", "b" >>, << "-", "a", "b" >>, << "1", "2" >>,
      << "eszett", "a" >> }
RefPool == { << "A", "B" >>, << "a", "b" >>, << "A", "b" >>, << "1", "2" >>, << "a", "B" >> }

\* the options of the engines of these calls; the three methods read none
HelperOptions == MkOptions(<<3, 128>>, << "-", "_" >>, <<>>, {}, FALSE, 0)

\* the calls made, each a frame waiting to run
HelperCalls ==
    { [pc |-> "call", fn |-> "init", args |-> [raw |-> raw, via |-> via],
       raised |-> FALSE, ret |-> <<>>] :
         raw \in RawTables, via \in {"given", "loaded"} }
    \cup
    { [pc |-> "call", fn |-> "enrich", args |-> [words |-> ws, env |-> env],
       raised |-> FALSE, ret |-> <<>>] :
         ws \in SeqsUpTo(HelperWords, MaxWords) \ { <<>> }, env \in Envs }
    \cup
    { [pc |-> "call", fn |-> "reapply", args |-> [src |-> src, ref |-> ref],
       raised |-> FALSE, ret |-> <<>>] :
         src \in SrcPool, ref \in RefPool }

\* WordlistEngine([], [], opt, variants_map), the table either passed as it
\* is or through load_name_variants first, as Wizard.__init__ does
InitCall ==
    \E i \in 1..Len(threads) :
        /\ threads[i].pc = "call" /\ threads[i].fn = "init"
        /\ LET raw == threads[i].args.raw
           IN  IF threads[i].args.via = "given" /\ InitRaises(raw)
               THEN /\ threads' = [threads EXCEPT ![i].pc = "returned",
                                                  ![i].raised = TRUE]
                    /\ engine' = engine
               ELSE LET table == IF threads[i].args.via = "given"
                                 THEN AsGiven(raw) ELSE LoadNameVariants(raw)
                        eng   == WordlistEngine(<<>>, <<>>, HelperOptions, table)
                    IN  /\ threads' = [threads EXCEPT
                                         ![i].pc = "returned",
                                         ![i].ret = eng.variant_siblings]
                        /\ engine' = << eng >>
        /\ UNCHANGED <<generated, btn_gen, message, done>>

\* engine._enrich_words(words) on an engine built with Wizard.name_variants
EnrichCall ==
    \E i \in 1..Len(threads), ord \in HashOrders :
        /\ threads[i].pc = "call" /\ threads[i].fn = "enrich"
        /\ engine # <<>>
        /\ threads' = [threads EXCEPT
                         ![i].pc = "returned",
                         ![i].ret = EnrichWords(threads[i].args.words, engine[1],
                                                threads[i].args.env, ord)]
        /\ UNCHANGED <<engine, generated, btn_gen, message, done>>

\* WordlistEngine._reapply_case(src, ref)
ReapplyCall ==
    \E i \in 1..Len(threads) :
        /\ threads[i].pc = "call" /\ threads[i].fn = "reapply"
        /\ threads' = [threads EXCEPT
                         ![i].pc = "returned",
                         ![i].ret = ReapplyCase(threads[i].args.src,
                                                threads[i].args.ref)]
        /\ UNCHANGED <<engine, generated, btn_gen, message, done>>

HelperInit ==
    /\ \E f \in HelperCalls :
          /\ threads = << f >>
          /\ engine = IF f.fn = "enrich"
                      THEN << WordlistEngine(<<>>, <<>>, HelperOptions, NameVariants) >>
                      ELSE <<>>
    /\ generated = <<>>
    /\ btn_gen = FALSE
    /\ message = "none"
    /\ done = <<>>

HelperNext ==
    \/ InitCall
    \/ EnrichCall
    \/ ReapplyCall

HelperSpec == HelperInit /\ [][HelperNext]_vars

----------------------------------------------------------------------------
(* The export helpers of the window: Wizard._export_masks,                 *)
(* Wizard._build_hashcat_rules, Wizard._build_john_rules                   *)

\* the characters of the string specials of _char_to_mask that the model has
MaskSpecials == { " ", "!", "#", "$", "%", "-", ".", "/", ":", "?", "@", "\\", "_" }

\* variant: characters outside the four named classes are written as they
\* are
CharToMask_Literal(ch) ==
    IF IsLowerCh(ch) /\ IsAsciiCh(ch) THEN << "?", "l" >>
    ELSE IF IsUpperCh(ch) /\ IsAsciiCh(ch) THEN << "?", "u" >>
    ELSE IF IsDigitCh(ch) THEN << "?", "d" >>
    ELSE IF ch \in MaskSpecials THEN << "?", "s" >>
    ELSE << ch >>

\* Wizard._char_to_mask: the comparisons 'a' <= ch <= 'z' hold for ASCII
\* letters only
CharToMask(ch) ==
    IF IsLowerCh(ch) /\ IsAsciiCh(ch) THEN << "?", "l" >>
    ELSE IF IsUpperCh(ch) /\ IsAsciiCh(ch) THEN << "?", "u" >>
    ELSE IF IsDigitCh(ch) THEN << "?", "d" >>
    ELSE IF ch \in MaskSpecials THEN << "?", "s" >>
    ELSE << "?", "a" >>

\* "".join(self._char_to_mask(c) for c in w)
MaskOf(w) == Concat([i \in 1..Len(w) |-> CharToMask(w[i])])

\* sorted(masks.items(), key=lambda kv: (-kv[1], kv[0])), the masks only:
\* ms is the list of the masks of the words
OrderedMasks(ms) ==
    LET count(m) == Cardinality({i \in 1..Len(ms) : ms[i] = m})
    IN  Concat([k \in 1..Len(ms) |->
                   SetToList({m \in Range(ms) : count(m) = Len(ms) + 1 - k}, "asc")])

\* str(n) for n >= 0
RECURSIVE DecStr(_)
DecStr(n) ==
    IF n < 10 THEN << DigitChars[n + 1] >>
    ELSE DecStr(n \div 10) \o << DigitChars[(n % 10) + 1] >>

\* Options(): the values the dataclass gives when the window has no engine
DefaultOptions ==
    MkOptions(<<6, 20>>, SEP_SET, << "!", "@", "#", "$", "%", "?" >>,
              {"add_leet", "add_casing", "add_separators"}, FALSE, 0)

\* o = self.engine.o if self.engine else Options()
OptionsOf(eng) == IF eng # <<>> THEN eng[1].o ELSE DefaultOptions

\* the pairs of the loop under add_leet, shared by the two builders
LeetRulePairs ==
    << << "a", "@" >>, << "a", "4" >>, << "e", "3" >>, << "i", "1" >>,
       << "o", "0" >>, << "s", "5" >> >>

\* f"s{a}{b}" and f"s{a.upper()}{b}" for every pair
LeetRules ==
    UNION { { << "s", LeetRulePairs[i][1], LeetRulePairs[i][2] >>,
              << "s", UpperCh(LeetRulePairs[i][1]), LeetRulePairs[i][2] >> }
              : i \in 1..Len(LeetRulePairs) }

Max(a, b) == IF a > b THEN a ELSE b

\* Wizard._build_hashcat_rules
BuildHashcatRules(eng) ==
    LET o == OptionsOf(eng)
    IN  SetToList(
          { << ":" >> }
          \cup (IF o.cap_first THEN { << "c" >> } ELSE {})
          \cup (IF o.cap_last
                THEN { << "l", "T" >> \o DecStr(n) : n \in 0..(Max(1, o.max_len) - 1) }
                ELSE {})
          \cup (IF o.add_leet THEN LeetRules ELSE {})
          \cup { << "$", o.add_prefix_suffix[i] >> : i \in 1..Len(o.add_prefix_suffix) },
          "asc")

\* Wizard._build_john_rules
BuildJohnRules(eng) ==
    LET o == OptionsOf(eng)
    IN  SetToList(
          { <<>> }
          \cup (IF o.cap_first THEN { << "c" >> } ELSE {})
          \cup (IF o.add_leet THEN LeetRules ELSE {})
          \cup { << "A", o.add_prefix_suffix[i] >> : i \in 1..Len(o.add_prefix_suffix) },
          "asc")

\* the words of the list widget when a mask export is asked
MaskWords ==
    { W_sea, W_Ab, W_b12, << "s", "e_acute", "!" >>, << "A", "-", "1" >> }

\* what QFileDialog.getSaveFileName and open() do
SavePaths == {"cancelled", "writable", "unwritable"}

\* the options of the engines whose rules are built
RuleOptions ==
    { MkOptions(win, << "-", "_" >>, x, F, FALSE, 0) :
        win \in { <<1, 4>>, <<3, 12>> },
        x \in { <<>>, << "!", "$" >> },
        F \in SUBSET {"cap_first", "cap_last", "add_leet"} }

RuleEngines ==
    { <<>> } \cup { << WordlistEngine(<<>>, <<>>, o, NameVariants) >> : o \in RuleOptions }

MaskFrame(path) ==
    [pc |-> "call", fn |-> "export_masks", args |-> [path |-> path],
     ms |-> <<>>, ret |-> <<>>]
RulesFrame(fn) ==
    [pc |-> "call", fn |-> fn, args |-> [path |-> "none"], ms |-> <<>>, ret |-> <<>>]

\* Wizard._export_masks: ms holds the masks of the words in turn, ret the
\* lines written to the file
ExportMasks ==
    \E i \in 1..Len(threads) :
        /\ threads[i].pc = "call" /\ threads[i].fn = "export_masks"
        /\ LET words == generated
               ms    == [k \in 1..Len(words) |-> MaskOf(words[k])]
               path  == threads[i].args.path
           IN  IF words = <<>>
               THEN /\ message' = "warning_empty"
                    /\ threads' = [threads EXCEPT ![i].pc = "returned"]
               ELSE IF path = "cancelled"
               THEN /\ message' = message
                    /\ threads' = [threads EXCEPT ![i].pc = "returned",
                                                  ![i].ms = ms]
               ELSE IF path = "unwritable"
               THEN /\ message' = "error"
                    /\ threads' = [threads EXCEPT ![i].pc = "returned",
                                                  ![i].ms = ms]
               ELSE /\ message' = "export_ok"
                    /\ threads' = [threads EXCEPT ![i].pc = "returned",
                                                  ![i].ms = ms,
                                                  ![i].ret = OrderedMasks(ms)]
        /\ UNCHANGED <<engine, generated, btn_gen, done>>

BuildHashcat ==
    \E i \in 1..Len(threads) :
        /\ threads[i].pc = "call" /\ threads[i].fn = "build_hashcat_rules"
        /\ threads' = [threads EXCEPT ![i].pc = "returned",
                                      ![i].ret = BuildHashcatRules(engine)]
        /\ UNCHANGED <<engine, generated, btn_gen, message, done>>

BuildJohn ==
    \E i \in 1..Len(threads) :
        /\ threads[i].pc = "call" /\ threads[i].fn = "build_john_rules"
        /\ threads' = [threads EXCEPT ![i].pc = "returned",
                                      ![i].ret = BuildJohnRules(engine)]
        /\ UNCHANGED <<engine, generated, btn_gen, message, done>>

\* a window with a list shown and one mask export asked, or a window with an
\* engine (or none) on which both rule builders are called
ExportInit ==
    /\ \/ /\ engine = <<>>
          /\ generated \in SeqsUpTo(MaskWords, MaxWords)
          /\ \E path \in SavePaths : threads = << MaskFrame(path) >>
       \/ /\ engine \in RuleEngines
          /\ generated = <<>>
          /\ threads = << RulesFrame("build_hashcat_rules"),
                          RulesFrame("build_john_rules") >>
    /\ btn_gen = TRUE
    /\ message = "none"
    /\ done = <<>>

ExportNext ==
    \/ ExportMasks
    \/ BuildHashcat
    \/ BuildJohn

ExportSpec == ExportInit /\ [][ExportNext]_vars

----------------------------------------------------------------------------
(* Properties of WordlistEngine.generate, checked under EngineSpec *)

\* generate() of thread i has returned or raised into run()
Returned(i) == threads[i].pc = "emit"

\* the digit characters occurring in the raw words and the date fragments
InputDigits(eng) ==
    {c \in Range(DigitChars) :
        \E w \in Range(eng.words) \cup Range(Dates(eng)) : c \in Range(w)}

\* C1: on the word path every string generate() returns has a length within
\* [min_len, max_len].
C1_LengthWindow ==
    \A i \in 1..Len(threads) :
        (Returned(i) /\ ~threads[i].eng.o.numeric_only) =>
            \A k \in 1..Len(threads[i].res) :
                /\ threads[i].eng.o.min_len <= Len(threads[i].res[k])
                /\ Len(threads[i].res[k]) <= threads[i].eng.o.max_len

\* a word path call has returned a non-empty list although one of its parts
\* is shorter than min_len
C1_Witness ==
    \E i \in 1..Len(threads) :
        /\ Returned(i) /\ ~threads[i].eng.o.numeric_only
        /\ threads[i].res # <<>>
        /\ \E k \in 1..Len(threads[i].parts) :
              Len(threads[i].parts[k]) < threads[i].eng.o.min_len

\* C2: the list generate() returns holds no string twice, on the word path
\* and on the numeric path.
C2_NoDuplicates ==
    \A i \in 1..Len(threads) :
        Returned(i) =>
            \A j, k \in 1..Len(threads[i].res) :
                j # k => threads[i].res[j] # threads[i].res[k]

\* a word path call has returned fewer strings than _filter kept: _uniq has
\* removed duplicates
C2_Witness ==
    \E i \in 1..Len(threads) :
        /\ Returned(i) /\ ~threads[i].eng.o.numeric_only
        /\ threads[i].res # <<>>
        /\ Len(threads[i].res) < Len(threads[i].combos)

\* C3: in numeric mode with a non-empty digit alphabet D, generate() returns
\* exactly the strings of length exact_digits over D, each once, whatever
\* min_len, max_len and the other options are.
C3_NumericPower ==
    \A i \in 1..Len(threads) :
        LET eng == threads[i].eng
            D   == InputDigits(eng)
            L   == eng.o.exact_digits
        IN  (Returned(i) /\ eng.o.numeric_only /\ D # {}) =>
                /\ ~threads[i].failed
                /\ Range(threads[i].res) = {s \in [1..L -> D] : TRUE}
                /\ Len(threads[i].res) = Pow(Cardinality(D), L)
                /\ Cardinality(Range(threads[i].res)) = Len(threads[i].res)

\* a numeric call has returned the four strings over two digits, one of
\* which comes from a date only, although they are shorter than min_len and
\* mutation flags are set
C3_Witness ==
    \E i \in 1..Len(threads) :
        /\ Returned(i) /\ threads[i].eng.o.numeric_only
        /\ threads[i].eng.o.exact_digits = 2
        /\ threads[i].eng.o.exact_digits < threads[i].eng.o.min_len
        /\ threads[i].eng.o.add_leet
        /\ Len(threads[i].res) >= 4
        /\ threads[i].eng.dates # <<>>
        /\ \E c \in InputDigits(threads[i].eng) :
              \A w \in Range(threads[i].eng.words) : c \notin Range(w)

\* C4: in numeric mode without any digit in the words and date fragments,
\* generate() raises, returns no string, and leaves the engine as it was.
C4_NoDigitsRaises ==
    [][\A i \in 1..Len(threads) :
          ( /\ threads[i].pc = "generate"
            /\ threads[i].eng.o.numeric_only
            /\ InputDigits(threads[i].eng) = {}
            /\ Len(threads') = Len(threads)
            /\ threads'[i].pc # "generate" ) =>
                /\ threads'[i].failed
                /\ threads'[i].res = <<>>
                /\ threads'[i].eng = threads[i].eng
                /\ engine' = engine]_vars

\* a numeric call on words without digits has raised
C4_Witness ==
    \E i \in 1..Len(threads) :
        /\ Returned(i) /\ threads[i].eng.o.numeric_only
        /\ threads[i].eng.words # <<>>
        /\ InputDigits(threads[i].eng) = {}
        /\ threads[i].failed

\* C5: every engine on which generate() runs was built with Options that
\* satisfy min_len <= max_len, both within 1..128, and exact_digits >= 1
\* when numeric_only is set; a construction with other Options raised.
ValidOptions(o) ==
    /\ o.min_len <= o.max_len
    /\ o.min_len \in 1..128
    /\ o.max_len \in 1..128
    /\ (o.numeric_only => o.exact_digits >= 1)

C5_ValidOptionsOnly ==
    /\ \A i \in 1..Len(threads) : ValidOptions(threads[i].eng.o)
    /\ \A i \in 1..Len(engine) : ValidOptions(engine[i].o)

\* a construction was rejected for its length range: no engine, no call
C5_Witness ==
    /\ message = "length out of range"
    /\ engine = <<>>
    /\ threads = <<>>

\* C10: when add_leet is set, for every string w that _combine produced,
\* _mutate returns w with each character replaced per the table a->@, A->4,
\* e->euro sign, E->3, i->!, I->1, o->inverted exclamation mark, O->0, s->$,
\* S->5 and every other character unchanged.
C10_LeetTable ==
    [][\A i \in 1..Len(threads) :
          ( /\ threads[i].pc = "mutate"
            /\ threads[i].eng.o.add_leet
            /\ Len(threads') = Len(threads)
            /\ threads'[i].pc = "prefix_suffix" ) =>
                LET table(c) ==
                        CASE c = "a" -> "@"     [] c = "A" -> "4"
                          [] c = "e" -> "euro"  [] c = "E" -> "3"
                          [] c = "i" -> "!"     [] c = "I" -> "1"
                          [] c = "o" -> "iexcl" [] c = "O" -> "0"
                          [] c = "s" -> "$"     [] c = "S" -> "5"
                          [] OTHER -> c
                IN  \A w \in Range(threads[i].combos) :
                        [k \in 1..Len(w) |-> table(w[k])]
                            \in Range(threads'[i].combos)]_vars

\* C10 as stated, with A->@: for every string w that _combine produced,
\* _mutate returns w with each character replaced per the table a->@, A->@,
\* e->euro sign, E->3, i->!, I->1, o->inverted exclamation mark, O->0, s->$,
\* S->5.
C10_AsStated ==
    [][\A i \in 1..Len(threads) :
          ( /\ threads[i].pc = "mutate"
            /\ threads[i].eng.o.add_leet
            /\ Len(threads') = Len(threads)
            /\ threads'[i].pc = "prefix_suffix" ) =>
                LET table(c) ==
                        CASE c = "a" -> "@"     [] c = "A" -> "@"
                          [] c = "e" -> "euro"  [] c = "E" -> "3"
                          [] c = "i" -> "!"     [] c = "I" -> "1"
                          [] c = "o" -> "iexcl" [] c = "O" -> "0"
                          [] c = "s" -> "$"     [] c = "S" -> "5"
                          [] OTHER -> c
                IN  \A w \in Range(threads[i].combos) :
                        [k \in 1..Len(w) |-> table(w[k])]
                            \in Range(threads'[i].combos)]_vars

\* _mutate with add_leet has run on "sea" and "Ab" and has returned the
\* translations of both
C10_Witness ==
    \E i \in 1..Len(threads) :
        /\ threads[i].pc = "prefix_suffix"
        /\ threads[i].eng.o.add_leet
        /\ threads[i].eng.words = << W_sea, W_Ab >>
        /\ << "$", "euro", "@" >> \in Range(threads[i].combos)
        /\ << "4", "b" >> \in Range(threads[i].combos)

\* C11 as stated: when duplicate_vowels is set, for every string w that
\* _combine produced, _mutate returns the string obtained from w by doubling
\* every vowel of aeiouyAEIOUY in place, the other characters unchanged.
C11_VowelsDoubled ==
    [][\A i \in 1..Len(threads) :
          ( /\ threads[i].pc = "mutate"
            /\ threads[i].eng.o.duplicate_vowels
            /\ Len(threads') = Len(threads)
            /\ threads'[i].pc = "prefix_suffix" ) =>
                LET vowels == {"a", "e", "i", "o", "u", "y",
                               "A", "E", "I", "O", "U", "Y"}
                    doubled(w) ==
                        Concat([k \in 1..Len(w) |->
                                  IF w[k] \in vowels THEN << w[k], w[k] >>
                                  ELSE << w[k] >>])
                IN  \A w \in Range(threads[i].combos) :
                        doubled(w) \in Range(threads'[i].combos)]_vars

\* C12 as stated: when cap_first is set, for every non-empty string w that
\* _combine produced, _mutate returns w where, in every run of letters and
\* digits (runs are delimited by the other characters, which are kept) that
\* begins with a letter, the first letter is upper-cased and the rest
\* lower-cased: hello_world gives Hello_World.
C12_CapEachRun ==
    [][\A i \in 1..Len(threads) :
          ( /\ threads[i].pc = "mutate"
            /\ threads[i].eng.o.cap_first
            /\ Len(threads') = Len(threads)
            /\ threads'[i].pc = "prefix_suffix" ) =>
                LET alnum(c) == IsAlphaCh(c) \/ IsDigitCh(c)
                    start(w, k) ==
                        CHOOSE j \in 1..k :
                            /\ \A m \in j..k : alnum(w[m])
                            /\ (j = 1 \/ ~alnum(w[j - 1]))
                    capped(w) ==
                        [k \in 1..Len(w) |->
                            IF ~alnum(w[k]) THEN w[k]
                            ELSE IF ~IsAlphaCh(w[start(w, k)]) THEN w[k]
                            ELSE IF k = start(w, k) THEN UpperCh(w[k])
                            ELSE LowerCh(w[k])]
                IN  \A w \in Range(threads[i].combos) :
                        w # <<>> => capped(w) \in Range(threads'[i].combos)]_vars

\* C13: whatever the flags are, every string that _combine produced is still
\* in the list _mutate returns.
C13_MutateOnlyAdds ==
    [][\A i \in 1..Len(threads) :
          ( /\ threads[i].pc = "mutate"
            /\ Len(threads') = Len(threads)
            /\ threads'[i].pc = "prefix_suffix" ) =>
                Range(threads[i].combos) \subseteq Range(threads'[i].combos)]_vars

\* _mutate has run with all its flags set: the word "Ab" is still there,
\* beside its reversal and its upper-cased form
C13_Witness ==
    \E i \in 1..Len(threads) :
        /\ threads[i].pc = "prefix_suffix"
        /\ threads[i].eng.o.add_casing /\ threads[i].eng.o.reverse_words
        /\ threads[i].eng.o.add_leet /\ threads[i].eng.o.cap_last
        /\ W_Ab \in Range(threads[i].eng.words)
        /\ W_Ab \in Range(threads[i].combos)
        /\ << "b", "A" >> \in Range(threads[i].combos)
        /\ << "A", "B" >> \in Range(threads[i].combos)

\* C14: with decoration characters, _prefix_suffix returns its input list
\* followed by added strings; the added strings are exactly c + w and w + c
\* for every input w and every decoration character c, so each of them begins
\* or ends with a decoration character and is one character longer than some
\* input string.
C14_Decorated ==
    [][\A i \in 1..Len(threads) :
          ( /\ threads[i].pc = "prefix_suffix"
            /\ threads[i].eng.o.add_prefix_suffix # <<>>
            /\ Len(threads') = Len(threads)
            /\ threads'[i].pc = "filter" ) =>
                LET inp == threads[i].combos
                    out == threads'[i].combos
                    X   == Range(threads[i].eng.o.add_prefix_suffix)
                IN  /\ Len(out) >= Len(inp)
                    /\ SubSeq(out, 1, Len(inp)) = inp
                    /\ {out[k] : k \in (Len(inp) + 1)..Len(out)}
                          = {<< c >> \o w : c \in X, w \in Range(inp)}
                            \cup {w \o << c >> : c \in X, w \in Range(inp)}
                    /\ \A k \in (Len(inp) + 1)..Len(out) :
                          /\ out[k][1] \in X \/ out[k][Len(out[k])] \in X
                          /\ \E w \in Range(inp) : Len(out[k]) = Len(w) + 1]_vars

\* _prefix_suffix has run with the decoration characters "!", "$", "!": the
\* word "Ab" is still there, beside "!Ab", "Ab!", "$Ab" and "Ab$"
C14_Witness ==
    \E i \in 1..Len(threads) :
        /\ threads[i].pc = "filter"
        /\ threads[i].eng.o.add_prefix_suffix = << "!", "$", "!" >>
        /\ { W_Ab, << "!" >> \o W_Ab, W_Ab \o << "!" >>,
             << "$" >> \o W_Ab, W_Ab \o << "$" >> }
               \subseteq Range(threads[i].combos)

----------------------------------------------------------------------------
(* Properties of the window and its worker, checked under Spec and FairSpec *)

\* the requests launched by _start whose done signal _show has not processed
InFlight ==
    Cardinality({i \in 1..Len(threads) : threads[i].pc # "finished"})
        + Len(done)

\* C6 as stated: when _show processes the done signal of a worker in which
\* generate() raised, the user is left with an empty result and an error
\* message is presented.
C6_FailurePresented ==
    [][( /\ done # <<>>
         /\ Head(done).failed
         /\ done' = Tail(done)
         /\ btn_gen' ) =>
            /\ generated' = <<>>
            /\ message' # "none"]_vars

\* C7: a step of _start that presents an error starts no worker and leaves
\* the current engine, the stored generated list and the enabled state of
\* the generate button as they were.  (Only _start presents a message.)
C7_FailedStartFrame ==
    [][message' # "none" =>
          /\ threads' = threads
          /\ engine' = engine
          /\ generated' = generated
          /\ btn_gen' = btn_gen
          /\ done' = done]_vars

\* a request has failed after an earlier one had produced a list, the
\* earlier engine and list are still there and the button is enabled
C7_Witness ==
    /\ message # "none"
    /\ engine # <<>>
    /\ generated # <<>>
    /\ btn_gen

\* C8: at most one request is in flight, and while one is in flight the
\* generate button is disabled, so that _start cannot run.
C8_OneInFlight ==
    /\ InFlight <= 1
    /\ (InFlight = 1 => ~btn_gen)

\* a second request is in flight: its worker has emitted done, _show has
\* not processed it yet, and the list of the first request is stored
C8_Witness ==
    /\ InFlight = 1
    /\ done # <<>>
    /\ generated # <<>>
    /\ ~btn_gen

\* C9: every worker emits done exactly once, when it finishes, and whenever
\* the generate button is disabled it is eventually enabled again with every
\* worker finished and every done signal processed.
C9_EventuallyRetryable ==
    /\ [](\A i \in 1..Len(threads) :
            threads[i].emits = IF threads[i].pc = "finished" THEN 1 ELSE 0)
    /\ (~btn_gen) ~> ( /\ btn_gen
                       /\ done = <<>>
                       /\ \A i \in 1..Len(threads) :
                             threads[i].pc = "finished" /\ threads[i].emits = 1 )

\* a worker in which generate() raised has emitted done once, _show has
\* processed it and the button is enabled again
C9_Witness ==
    /\ btn_gen
    /\ done = <<>>
    /\ \E i \in 1..Len(threads) :
          /\ threads[i].failed
          /\ threads[i].pc = "finished"
          /\ threads[i].emits = 1

----------------------------------------------------------------------------
(* Properties of the helper methods, checked under HelperSpec *)

\* call i has returned (or raised)
Done(i, fn) == threads[i].pc = "returned" /\ threads[i].fn = fn

\* the table the constructor of call i received
TableOf(i) ==
    IF threads[i].args.via = "given" THEN AsGiven(threads[i].args.raw)
    ELSE LoadNameVariants(threads[i].args.raw)

\* the groups {base} \cup aliases of a table, lower-cased
Groups(table) ==
    { {StrLower(b)} \cup {StrLower(a) : a \in Range(table[b])} : b \in DOMAIN table }

\* C15 as stated: the sibling index maps every member of every group to
\* exactly the other members of that group.
C15_ExactlyTheGroup ==
    \A i \in 1..Len(threads) :
        (Done(i, "init") /\ ~threads[i].raised) =>
            \A G \in Groups(TableOf(i)) : \A v \in G :
                v \in DOMAIN threads[i].ret /\ threads[i].ret[v] = G \ {v}

\* C15: the keys of the sibling index are the members of the groups; w is a
\* sibling of v exactly when w differs from v and some group holds both, so
\* the index is symmetric, lists no token as its own sibling, and a token of
\* several groups has the other members of all of them.
C15_SiblingIndex ==
    \A i \in 1..Len(threads) :
        (Done(i, "init") /\ ~threads[i].raised) =>
            LET ret == threads[i].ret
                Gs  == Groups(TableOf(i))
            IN  /\ DOMAIN ret = UNION Gs
                /\ \A v \in DOMAIN ret : v \notin ret[v]
                /\ \A v \in DOMAIN ret : \A w \in ret[v] : v \in ret[w]
                /\ \A v \in DOMAIN ret : \A w \in UNION Gs :
                      w \in ret[v] <=> (w # v /\ \E G \in Gs : v \in G /\ w \in G)

\* an index was built from a table in which a token belongs to two groups
C15_Witness ==
    \E i \in 1..Len(threads) :
        /\ Done(i, "init") /\ ~threads[i].raised
        /\ \E G \in Groups(TableOf(i)), H \in Groups(TableOf(i)) :
              /\ G # H
              /\ \E v \in G \cap H : threads[i].ret[v] = (G \cup H) \ {v}
              /\ \E v \in G \ H : threads[i].ret[v] = G \ {v}

InputWords(i) == {w \in Range(threads[i].args.words) : w # <<>>}

\* C17 as stated: the result of _enrich_words contains every non-empty input
\* word itself, unchanged.
C17_ContainsWord ==
    \A i \in 1..Len(threads) :
        Done(i, "enrich") =>
            \A w \in InputWords(i) : w \in Range(threads[i].ret)

\* C17: the result of _enrich_words contains every input word that is not
\* blank, with the white space around it removed.
C17_ContainsStripped ==
    \A i \in 1..Len(threads) :
        Done(i, "enrich") =>
            \A w \in InputWords(i) :
                StrStrip(w) # <<>> => StrStrip(w) \in Range(threads[i].ret)

\* a word with a trailing blank was enriched: the result has the word without
\* the blank and not the word as given
C17_Witness ==
    \E i \in 1..Len(threads) :
        /\ Done(i, "enrich")
        /\ \E w \in InputWords(i) :
              /\ StrStrip(w) # w /\ StrStrip(w) # <<>>
              /\ StrStrip(w) \in Range(threads[i].ret)
              /\ w \notin Range(threads[i].ret)

\* what call i returns when nothing comes from the lexical service: the
\* cleaned pool of the word, its transliteration and its sibling variants
StepsOneToThree(i) ==
    Range(EnrichWords(threads[i].args.words, engine[1],
                      [unidecode |-> threads[i].args.env.unidecode, wn |-> "absent"],
                      "asc"))

\* the strings of the result of call i that come from the lexical service
FromService(i) == Range(threads[i].ret) \ StepsOneToThree(i)

\* C18 as stated: enriching one word adds at most 8 strings that come from
\* the lexical service, lemma and synonyms counted together.
C18_AtMostEight ==
    \A i \in 1..Len(threads) :
        (Done(i, "enrich") /\ Len(threads[i].args.words) = 1) =>
            Cardinality(FromService(i)) <= MAX_SYNONYMS_PER_WORD

\* C18: enriching one word adds at most 9 strings that come from the lexical
\* service: at most 8 synonyms, and the lemma besides them.
C18_AtMostEightAndLemma ==
    \A i \in 1..Len(threads) :
        (Done(i, "enrich") /\ Len(threads[i].args.words) = 1) =>
            Cardinality(FromService(i)) <= MAX_SYNONYMS_PER_WORD + 1

\* a word with more than 8 synonyms and a lemma was enriched: 9 strings of
\* the result come from the service
C18_Witness ==
    \E i \in 1..Len(threads) :
        /\ Done(i, "enrich") /\ Len(threads[i].args.words) = 1
        /\ Cardinality(Range(Concat(WnSynsets(StrLower(threads[i].args.words[1])))))
              > MAX_SYNONYMS_PER_WORD
        /\ Cardinality(FromService(i)) = MAX_SYNONYMS_PER_WORD + 1

\* C19: when the lexical service is absent or one of its lookups raises,
\* _enrich_words raises nothing and returns exactly what the word, its
\* transliteration and its sibling variants give, with nothing from the
\* service.
C19_DegradesToStepsOneToThree ==
    \A i \in 1..Len(threads) :
        (Done(i, "enrich") /\ threads[i].args.env.wn # "ok") =>
            /\ ~threads[i].raised
            /\ Range(threads[i].ret) = StepsOneToThree(i)

\* C20: re-applying the casing of the same reference to the result of
\* _reapply_case gives that result again.
C20_Idempotent ==
    \A i \in 1..Len(threads) :
        Done(i, "reapply") =>
            ReapplyCase(threads[i].ret, threads[i].args.ref) = threads[i].ret

----------------------------------------------------------------------------
(* Properties of the export helpers, checked under ExportSpec *)

\* the mask export i went through its loop over the words of the list
Masked(i) ==
    /\ threads[i].pc = "returned" /\ threads[i].fn = "export_masks"
    /\ generated # <<>>

\* C21 as stated: the mask string built for a candidate has the length of
\* the candidate.
C21_SameLength ==
    \A i \in 1..Len(threads) :
        Masked(i) =>
            \A k \in 1..Len(generated) :
                Len(threads[i].ms[k]) = Len(generated[k])

\* C21: the mask string built for a candidate has one class symbol per
\* character of the candidate, in the order of the characters; a class symbol
\* is the two characters ?l, ?u, ?d, ?s or ?a, so the mask string is twice as
\* long as the candidate.
C21_OneSymbolPerCharacter ==
    \A i \in 1..Len(threads) :
        Masked(i) =>
            \A k \in 1..Len(generated) :
                /\ Len(threads[i].ms[k]) = 2 * Len(generated[k])
                /\ \A j \in 1..Len(generated[k]) :
                      /\ threads[i].ms[k][2 * j - 1] = "?"
                      /\ threads[i].ms[k][2 * j] \in {"l", "u", "d", "s", "a"}
                /\ threads[i].ret # <<>> => threads[i].ms[k] \in Range(threads[i].ret)

\* masks were written for a list that holds a word with a character outside
\* ASCII
C21_Witness ==
    \E i \in 1..Len(threads) :
        /\ Masked(i) /\ message = "export_ok"
        /\ \E k \in 1..Len(generated) :
              /\ \E j \in 1..Len(generated[k]) : ~IsAsciiCh(generated[k][j])
              /\ threads[i].ms[k] \in Range(threads[i].ret)
              /\ Len(threads[i].ms[k]) = 2 * Len(generated[k])

\* what a Hashcat rule token stands for: the flag it comes from, and for a
\* prefix/suffix character that character
HashcatKind(r) ==
    IF r = << ":" >> THEN [flag |-> "noop", ch |-> ""]
    ELSE IF r = << "c" >> THEN [flag |-> "cap_first", ch |-> ""]
    ELSE IF r[1] = "$" THEN [flag |-> "add_prefix_suffix", ch |-> r[2]]
    ELSE IF r[1] = "l" THEN [flag |-> "cap_last", ch |-> ""]
    ELSE [flag |-> "add_leet", ch |-> ""]

\* what a John rule token stands for
JohnKind(r) ==
    IF r = <<>> THEN [flag |-> "noop", ch |-> ""]
    ELSE IF r = << "c" >> THEN [flag |-> "cap_first", ch |-> ""]
    ELSE IF r[1] = "A" THEN [flag |-> "add_prefix_suffix", ch |-> r[2]]
    ELSE [flag |-> "add_leet", ch |-> ""]

\* C22: built for the same Options, the Hashcat rule set and the John rule
\* set hold rules for the same flags and the same prefix/suffix characters.
C22_SameFlagsHonored ==
    (/\ Len(threads) = 2
     /\ threads[1].fn = "build_hashcat_rules" /\ threads[1].pc = "returned"
     /\ threads[2].fn = "build_john_rules" /\ threads[2].pc = "returned") =>
        {HashcatKind(r) : r \in Range(threads[1].ret)}
            = {JohnKind(r) : r \in Range(threads[2].ret)}

----------------------------------------------------------------------------
(* Properties of the steps of WordlistEngine.generate, checked under       *)
(* EngineSpec                                                              *)

\* _combine of thread i has returned and _mutate has not run yet
Combined(i) == threads[i].pc = "mutate"

\* P(n, r): the number of ordered arrangements of r of n positions
RECURSIVE NumArrangements(_, _)
NumArrangements(n, r) ==
    IF r = 0 THEN 1 ELSE (n - r + 1) * NumArrangements(n, r - 1)

\* strings emitted per arrangement by the engine of thread i
PerArrangement(i) ==
    IF threads[i].eng.o.add_separators THEN Len(threads[i].eng.o.separators) ELSE 1

\* the number of strings _combine emits for the arrangements shorter than r
RECURSIVE LevelOffset(_, _)
LevelOffset(i, r) ==
    IF r <= 1 THEN 0
    ELSE LevelOffset(i, r - 1)
           + NumArrangements(Len(threads[i].parts), r - 1) * PerArrangement(i)

\* the strings an arrangement of r items of thread i gives: joined by each
\* separator, or concatenated
LevelStrings(i, r) ==
    LET items == threads[i].parts
        o     == threads[i].eng.o
        inj   == {p \in [1..r -> 1..Len(items)] :
                     \A a \in 1..r : \A b \in 1..r : p[a] = p[b] => a = b}
    IN  IF o.add_separators
        THEN {Join(<< o.separators[s] >>, [k \in 1..r |-> items[p[k]]])
                 : p \in inj, s \in 1..Len(o.separators)}
        ELSE {Concat([k \in 1..r |-> items[p[k]]]) : p \in inj}

\* C23: for a pool of n items the list _combine emits has
\* sum over r in 1..min(4, n) of P(n, r) * (number of separators when
\* add_separators is on, 1 otherwise) entries; the entries of the arrangements
\* of length r follow those of the shorter ones and are the arrangements of r
\* items at distinct positions, joined by each separator when add_separators
\* is on and concatenated otherwise.
C23_CombineArrangements ==
    \A i \in 1..Len(threads) :
        Combined(i) =>
            LET n    == Len(threads[i].parts)
                rmax == Min(4, n)
                out  == threads[i].combos
            IN  /\ Len(out) = LevelOffset(i, rmax + 1)
                /\ \A r \in 1..rmax :
                      {out[k] : k \in (LevelOffset(i, r) + 1)..LevelOffset(i, r + 1)}
                          = LevelStrings(i, r)

\* _combine ran on a pool of more than 4 items: no arrangement of 5 items is
\* emitted
C23_Witness ==
    \E i \in 1..Len(threads) :
        /\ Combined(i)
        /\ Len(threads[i].parts) = 9
        /\ Len(threads[i].combos) = 9 + 72 + 504 + 3024

\* the position at which the list lst first holds x
FirstIndex(lst, x) ==
    CHOOSE k \in 1..Len(lst) : lst[k] = x /\ \A j \in 1..(k - 1) : lst[j] # x

\* C24: the strings generate() returns are in the order in which the pipeline
\* first produced them: two returned strings that the combiner emitted stand
\* in the order in which the combiner emitted them.
C24_ProductionOrder ==
    \A i \in 1..Len(threads) :
        (Returned(i) /\ ~threads[i].failed /\ ~threads[i].eng.o.numeric_only) =>
            LET produced == Combine(threads[i].parts, threads[i].eng.o)
                res      == threads[i].res
            IN  \A x \in Range(res) \cap Range(produced) :
                \A y \in Range(res) \cap Range(produced) :
                    FirstIndex(produced, x) < FirstIndex(produced, y)
                        => FirstIndex(res, x) < FirstIndex(res, y)

\* the results of applying one transform that the options o enable to w
OneTransform(w, o) ==
    (IF o.add_casing THEN {StrUpper(w), StrLower(w), StrCapitalize(w)} ELSE {})
    \cup (IF o.add_leet THEN {Translate(w)} ELSE {})
    \cup (IF o.duplicate_vowels THEN {DupVowelsSub(w)} ELSE {})
    \cup (IF o.reverse_words THEN {StrReverse(w)} ELSE {})
    \cup (IF o.cap_first /\ w # <<>> THEN {CapFirstTokens(w)} ELSE {})
    \cup (IF o.cap_last /\ w # <<>>
          THEN {StrLower(SubSeq(w, 1, Len(w) - 1)) \o UpperOf(w[Len(w)])}
          ELSE {})

\* C25: every string in the result of _mutate is a combiner output or the
\* result of one enabled transform applied to a combiner output.
C25_SinglePass ==
    [][\A i \in 1..Len(threads) :
          ( /\ threads[i].pc = "mutate"
            /\ Len(threads') = Len(threads)
            /\ threads'[i].pc = "prefix_suffix" ) =>
              Range(threads'[i].combos) \subseteq
                  Range(threads[i].combos)
                  \cup UNION {OneTransform(w, threads[i].eng.o)
                                 : w \in Range(threads[i].combos)}]_vars

\* _mutate ran with leet and reversal enabled on a list holding "Ab": the
\* result holds the leet form and the reversed form, not the reversed leet
\* form
C25_Witness ==
    \E i \in 1..Len(threads) :
        /\ threads[i].pc = "prefix_suffix"
        /\ threads[i].eng.o.add_leet /\ threads[i].eng.o.reverse_words
        /\ W_Ab \in Range(threads[i].parts)
        /\ Translate(W_Ab) \in Range(threads[i].combos)
        /\ StrReverse(W_Ab) \in Range(threads[i].combos)
        /\ StrReverse(Translate(W_Ab)) \notin Range(threads[i].combos)

\* the arrangements of r of the n positions
Injections(n, r) ==
    {p \in [1..r -> 1..n] : \A a \in 1..r : \A b \in 1..r : p[a] = p[b] => a = b}

\* the engine of thread i joins with separators and none is configured
NoSeparator(i) ==
    /\ threads[i].eng.o.add_separators
    /\ threads[i].eng.o.separators = <<>>
    /\ ~threads[i].eng.o.numeric_only

\* with an empty separators sequence generate() returns an empty list
EmptyWithoutSeparator ==
    \A i \in 1..Len(threads) :
        (Returned(i) /\ NoSeparator(i)) =>
            ~threads[i].failed /\ threads[i].res = <<>>

\* C26 as stated: when add_separators is on, every string the combiner emits
\* is an arrangement joined by a configured separator, the plain concatenation
\* of an arrangement of several items is never among the emitted strings, and
\* with no separator configured generate() returns an empty list.
C26_NoPlainConcatenation ==
    /\ EmptyWithoutSeparator
    /\ \A i \in 1..Len(threads) :
          (Combined(i) /\ threads[i].eng.o.add_separators) =>
              LET items == threads[i].parts
                  rmax  == Min(4, Len(items))
              IN  /\ Range(threads[i].combos)
                        \subseteq UNION {LevelStrings(i, r) : r \in 1..rmax}
                  /\ \A r \in 2..rmax : \A p \in Injections(Len(items), r) :
                        Concat([k \in 1..r |-> items[p[k]]])
                            \notin Range(threads[i].combos)

\* C26: when add_separators is on, every string the combiner emits is an
\* arrangement joined by a configured separator, the strings emitted for the
\* arrangements of several items hold a separator between the items (so a
\* plain concatenation is among the emitted strings only where it is itself an
\* item or a joined arrangement), and with no separator configured generate()
\* returns an empty list.
C26_JoinedOnly ==
    /\ EmptyWithoutSeparator
    /\ \A i \in 1..Len(threads) :
          (Combined(i) /\ threads[i].eng.o.add_separators) =>
              LET items == threads[i].parts
                  o     == threads[i].eng.o
                  rmax  == Min(4, Len(items))
                  out   == threads[i].combos
              IN  /\ Range(out) \subseteq UNION {LevelStrings(i, r) : r \in 1..rmax}
                  /\ \A r \in 2..rmax :
                        {out[k] : k \in (LevelOffset(i, r) + 1)..LevelOffset(i, r + 1)}
                            \subseteq
                        {x.joined :
                           x \in {y \in {[joined |-> Join(<< o.separators[s] >>,
                                                         [j \in 1..r |-> items[p[j]]]),
                                          plain  |-> Concat([j \in 1..r |-> items[p[j]]])]
                                           : p \in Injections(Len(items), r),
                                             s \in 1..Len(o.separators)}
                                     : y.joined # y.plain}}
                  /\ o.separators = <<>> => out = <<>>

\* generate() returned for words given, add_separators on and no separator
\* configured: the list is empty
C26_Witness ==
    \E i \in 1..Len(threads) :
        /\ Returned(i) /\ NoSeparator(i)
        /\ Len(threads[i].parts) = 2
        /\ threads[i].res = <<>>

============================================================================
